---- MODULE Spec2Model ----
(***************************************************************************)
(* Health arbitration of the RPC load balancer: src/src/health/check.rs.   *)
(* Two tasks spawned by main (src/src/main.rs) share the active pool       *)
(* (rpc_list) and the poverty pool (poverty_list), each an                 *)
(* Arc<RwLock<Vec<Rpc>>>:                                                  *)
(*   - the Health Loop: health_check -> check -> head_check, make_poverty, *)
(*     head_check, escape_poverty, then get_safe_block;                    *)
(*   - the Drop Handler: dropped_listener -> send_dropped_to_poverty.      *)
(* Vec indices are 0-based as in the source; slot i of a Vec is element    *)
(* i + 1 of the sequence that models it.                                   *)
(***************************************************************************)
EXTENDS Integers, Sequences, FiniteSets, TLC

\* Number of nodes configured at startup (config.rpc_list).
NumNodes == 3
\* Largest block number a node reports.
MaxHead == 2
\* Number of transport-failure notifications the listener receives.
MaxDrops == 1

Urls == 1..NumNodes

\* The values of Settings.ttl, by whether u128 -> u64 conversion succeeds.
TtlClasses == {"u64", "wide"}

\* rpc_future: ttl.try_into() into the u64 of Duration::from_millis is Ok.
TtlFitsU64(t) == t = "u64"
Heads == 0..MaxHead

\* An Rpc handle: its url and status.is_erroring.
Rpc(u, e) == [url |-> u, is_erroring |-> e]

\* Mutant of HeadResult: the task's index i is not captured.
HeadResultNoIndex(i, h) == [rpc_list_index |-> 0, reported_head |-> h]

\* struct HeadResult
HeadResult(i, h) == [rpc_list_index |-> i, reported_head |-> h]

VARIABLES
    rpc_list,       \* the active pool
    poverty_list,   \* the poverty pool
    rpc_lock,       \* writer of rpc_list's RwLock: "free", "health" or "drop"
    poverty_lock,   \* writer of poverty_list's RwLock
    poisoned,       \* both RwLocks are poisoned (a writer panicked holding them)
    h_pc,           \* position of the Health Loop task
    pass,           \* the pool head_check is polling: "active" or "poverty"
    len,            \* head_check: len
    rpc_futures,    \* head_check: the rpc_clone of each future, by index
    running,        \* head_check: indices of the spawned tasks still running
    chan,           \* head_check: the mpsc channel (tx, rx)
    heads,          \* head_check: heads, then the heads passed to the arbiter
    agreed_head,    \* check: agreed_head
    d_pc,           \* position of the Drop Handler task
    ws_conn_index,  \* send_dropped_to_poverty: ws_conn_index
    fetched,        \* history: the block_number() outcome behind the newest result sent
    last,           \* history: the arbiter call that has just returned
    drops,          \* number of notifications dropped_listener has received
    d_log,          \* history: what the Drop Handler did for its notification
    ttl,            \* config: Settings.ttl (u128), as a class: "u64" when the
                    \* value fits a u64, "wide" when it is 2^64 or more
    closed_node     \* history, until the quarantine block ends: url of the node at
                    \* the notification's index when it was received, 0 if none

vars == <<rpc_list, poverty_list, rpc_lock, poverty_lock, poisoned, h_pc, pass, ttl,
          len, rpc_futures, running, chan, heads, agreed_head, d_pc,
          ws_conn_index, fetched, last, d_log, drops, closed_node, ttl>>

pools == <<rpc_list, poverty_list>>
locks == <<rpc_lock, poverty_lock, poisoned>>
poller == <<len, rpc_futures, running, chan, heads, fetched>>
dropper == <<d_pc, ws_conn_index, d_log, drops, closed_node>>

NoOp == [op |-> "none"]
NoFetch == [i |-> 0, outcome |-> [kind |-> "none", head |-> 0]]

\* main: rpc_list_rwlock holds config.rpc_list, rpc_poverty_list is empty;
\* both tasks are spawned.
Init ==
    /\ rpc_list = [k \in 1..NumNodes |-> Rpc(k, FALSE)]
    /\ poverty_list = <<>>
    /\ rpc_lock = "free"
    /\ poverty_lock = "free"
    /\ poisoned = FALSE
    /\ h_pc = "sleep"
    /\ pass = "active"
    /\ len = 0
    /\ rpc_futures = <<>>
    /\ running = {}
    /\ chan = <<>>
    /\ heads = <<>>
    /\ agreed_head = 0
    /\ d_pc = "recv"
    /\ ws_conn_index = 0
    /\ fetched = NoFetch
    /\ last = NoOp
    /\ d_log = <<>>
    /\ drops = 0
    /\ closed_node = 0
    /\ ttl \in TtlClasses

----------------------------------------------------------------------------
(* Pure parts of the source. *)

\* Vec::retain(pred) is SelectSeq(_, pred) below.

\* Mutant of NotErroring: the retain keeps every slot.
NotErroringKeepsAll(rpc) == TRUE

\* make_poverty: rpc_list_guard.retain(|rpc| !rpc.status.is_erroring)
NotErroring(rpc) == ~rpc.is_erroring

\* escape_poverty: poverty_list_guard.retain(|rpc| rpc.status.is_erroring)
Erroring(rpc) == rpc.is_erroring

\* Mutant of RemoveAt: the first slot is removed, whatever the index.
RemoveFirst(s, i) == Tail(s)

\* Vec::remove(i): the slots after i shift down by one.
RemoveAt(s, i) == SubSeq(s, 1, i) \o SubSeq(s, i + 2, Len(s))

\* What block_number() under timeout() can give: Ok(Ok(h)), Ok(Err(_)), Err(Elapsed).
Outcomes ==
    {[kind |-> "ok", head |-> h] : h \in Heads}
        \cup {[kind |-> "err", head |-> 0], [kind |-> "elapsed", head |-> 0]}

\* head_check: let head = match result { Ok(response) => response.unwrap_or(0), Err(_) => 0 }
NormalizeHead(o) ==
    IF o.kind = "elapsed" THEN 0
    ELSE IF o.kind = "ok" THEN o.head ELSE 0

\* Mutant of HighestFrom: the comparison is turned around.
RECURSIVE HighestFromFlipped(_, _)
HighestFromFlipped(hs, highest_head) ==
    IF hs = <<>> THEN highest_head
    ELSE HighestFromFlipped(Tail(hs),
                            IF Head(hs).reported_head < highest_head
                            THEN Head(hs).reported_head
                            ELSE highest_head)

\* make_poverty: the highest head reported, starting from 0.
RECURSIVE HighestFrom(_, _)
HighestFrom(hs, highest_head) ==
    IF hs = <<>> THEN highest_head
    ELSE HighestFrom(Tail(hs),
                     IF Head(hs).reported_head > highest_head
                     THEN Head(hs).reported_head
                     ELSE highest_head)

HighestHead(hs) == HighestFrom(hs, 0)

\* make_poverty: whether a result sends its slot to the poverty list.
FallsBehind(head, highest_head) == head.reported_head < highest_head

\* Mutant of MarkLoop: the slot is cloned into the poverty list before it is
\* marked.
RECURSIVE MarkLoopClonesFirst(_, _, _, _)
MarkLoopClonesFirst(hs, highest_head, rl, pl) ==
    IF hs = <<>> THEN [rpc |-> rl, pov |-> pl, panicked |-> FALSE]
    ELSE LET head == Head(hs)
             i == head.rpc_list_index
         IN  IF FallsBehind(head, highest_head)
             THEN IF i >= Len(rl)
                  THEN [rpc |-> rl, pov |-> pl, panicked |-> TRUE]
                  ELSE MarkLoopClonesFirst(Tail(hs), highest_head,
                            [rl EXCEPT ![i + 1].is_erroring = TRUE],
                            Append(pl, rl[i + 1]))
             ELSE MarkLoopClonesFirst(Tail(hs), highest_head, rl, pl)

\* make_poverty: the loop over heads. rl, pl are the two guarded Vecs. Indexing
\* rl past its end panics and leaves both Vecs as they are at that point.
RECURSIVE MarkLoop(_, _, _, _)
MarkLoop(hs, highest_head, rl, pl) ==
    IF hs = <<>> THEN [rpc |-> rl, pov |-> pl, panicked |-> FALSE]
    ELSE LET head == Head(hs)
             i == head.rpc_list_index
         IN  IF FallsBehind(head, highest_head)
             THEN IF i >= Len(rl)
                  THEN [rpc |-> rl, pov |-> pl, panicked |-> TRUE]
                  ELSE LET marked == [rl EXCEPT ![i + 1].is_erroring = TRUE]
                       IN  MarkLoop(Tail(hs), highest_head, marked,
                                    Append(pl, marked[i + 1]))
             ELSE MarkLoop(Tail(hs), highest_head, rl, pl)

\* Mutant of MadeIt: a node that reports exactly the agreed head stays behind.
MadeItStrict(head_result, agreed) == head_result.reported_head > agreed

\* escape_poverty: whether a result brings its slot back to the rpc list.
MadeIt(head_result, agreed) == head_result.reported_head >= agreed

\* escape_poverty: the loop over poverty_heads.
RECURSIVE PromoteLoop(_, _, _, _)
PromoteLoop(hs, agreed, rl, pl) ==
    IF hs = <<>> THEN [rpc |-> rl, pov |-> pl, panicked |-> FALSE]
    ELSE LET head_result == Head(hs)
             i == head_result.rpc_list_index
         IN  IF MadeIt(head_result, agreed)
             THEN IF i >= Len(pl)
                  THEN [rpc |-> rl, pov |-> pl, panicked |-> TRUE]
                  ELSE LET rpc == [pl[i + 1] EXCEPT !.is_erroring = FALSE]
                       IN  PromoteLoop(Tail(hs), agreed, Append(rl, rpc),
                                       [pl EXCEPT ![i + 1].is_erroring = FALSE])
             ELSE PromoteLoop(Tail(hs), agreed, rl, pl)

----------------------------------------------------------------------------
(* The Health Loop. *)

PoolOf(p) == IF p = "active" THEN rpc_list ELSE poverty_list
LockOf(p) == IF p = "active" THEN rpc_lock ELSE poverty_lock

\* Mutant of ArbiterOf: check calls the two arbiters the other way round.
ArbiterOfSwapped(p) == IF p = "active" THEN "ep_lock_pov" ELSE "mp_lock_rpc"

\* check: the arbiter that follows the head_check of a pass.
ArbiterOf(p) == IF p = "active" THEN "mp_lock_rpc" ELSE "ep_lock_pov"

\* health_check: read the config, sleep, call check.
health_sleep ==
    /\ h_pc = "sleep"
    /\ h_pc' = "hc_len"
    /\ last' = NoOp
    /\ UNCHANGED <<pools, locks, pass, ttl, poller, agreed_head, dropper>>

\* head_check: len = rpc_list.read().unwrap().len(); an empty Vec returns at once.
head_check_len ==
    /\ h_pc = "hc_len"
    /\ LockOf(pass) = "free"
    /\ last' = NoOp
    /\ IF poisoned
       THEN /\ h_pc' = "panicked"
            /\ UNCHANGED poller
       ELSE /\ len' = Len(PoolOf(pass))
            /\ rpc_futures' = <<>>
            /\ running' = {}
            /\ chan' = <<>>
            /\ heads' = <<>>
            /\ fetched' = NoFetch
            /\ h_pc' = IF Len(PoolOf(pass)) = 0 THEN ArbiterOf(pass) ELSE "hc_clone"
    /\ UNCHANGED <<pools, locks, pass, ttl, agreed_head, dropper>>

\* head_check: one iteration of `for i in 0..len`: rpc_list.read().unwrap()[i].clone().
head_check_clone ==
    /\ h_pc = "hc_clone"
    /\ LockOf(pass) = "free"
    /\ LET i == Len(rpc_futures)
       IN  IF poisoned \/ i >= Len(PoolOf(pass))
           THEN /\ h_pc' = "panicked"
                /\ UNCHANGED rpc_futures
           ELSE /\ rpc_futures' = Append(rpc_futures, PoolOf(pass)[i + 1])
                /\ h_pc' = IF i + 1 = len THEN "hc_spawn" ELSE "hc_clone"
    /\ UNCHANGED <<pools, locks, pass, ttl, len, running, chan, heads, fetched,
                   agreed_head, last, dropper>>

\* head_check: tokio::spawn of every future.
head_check_spawn ==
    /\ h_pc = "hc_spawn"
    /\ running' = 0..(len - 1)
    /\ h_pc' = "hc_recv"
    /\ UNCHANGED <<pools, locks, pass, ttl, len, rpc_futures, chan, heads, fetched,
                   agreed_head, last, dropper>>

\* Mutant of rpc_future: a fetch that fails or times out ends its task
\* without sending a result.
rpc_future_drops_failed ==
    \E i \in running, o \in Outcomes :
        /\ chan' = IF o.kind = "ok"
                   THEN Append(chan, HeadResult(i, NormalizeHead(o)))
                   ELSE chan
        /\ running' = running \ {i}
        /\ fetched' = IF o.kind = "ok" THEN [i |-> i, outcome |-> o] ELSE fetched
        /\ UNCHANGED <<pools, locks, h_pc, pass, ttl, len, rpc_futures, heads,
                       agreed_head, last, dropper>>

\* head_check: one spawned future runs: block_number() under the timeout, then
\* tx.send(head_result). The channel holds len results, so the send never waits.
\* When ttl does not fit a u64, ttl.try_into().unwrap() panics before the fetch
\* is polled: the task ends and sends nothing.
rpc_future ==
    \E i \in running :
        /\ running' = running \ {i}
        /\ IF TtlFitsU64(ttl)
           THEN \E o \in Outcomes :
                    /\ chan' = Append(chan, HeadResult(i, NormalizeHead(o)))
                    /\ fetched' = [i |-> i, outcome |-> o]
           ELSE UNCHANGED <<chan, fetched>>
        /\ UNCHANGED <<pools, locks, h_pc, pass, ttl, len, rpc_futures, heads,
                       agreed_head, last, dropper>>

\* head_check: one iteration of `for _ in 0..len`: rx.recv().await, heads.push;
\* after len of them, Ok(heads).
head_check_recv ==
    /\ h_pc = "hc_recv"
    /\ chan # <<>>
    /\ heads' = Append(heads, Head(chan))
    /\ chan' = Tail(chan)
    /\ h_pc' = IF Len(heads) + 1 = len THEN ArbiterOf(pass) ELSE "hc_recv"
    /\ UNCHANGED <<pools, locks, pass, ttl, len, rpc_futures, running, fetched,
                   agreed_head, last, dropper>>

\* make_poverty: rpc_list.write().unwrap()
make_poverty_lock_rpc ==
    /\ h_pc = "mp_lock_rpc"
    /\ rpc_lock = "free"
    /\ IF poisoned
       THEN h_pc' = "panicked" /\ UNCHANGED rpc_lock
       ELSE h_pc' = "mp_lock_pov" /\ rpc_lock' = "health"
    /\ UNCHANGED <<pools, poverty_lock, poisoned, pass, ttl, poller, agreed_head,
                   last, dropper>>

\* make_poverty: poverty_list.write().unwrap()
make_poverty_lock_pov ==
    /\ h_pc = "mp_lock_pov"
    /\ poverty_lock = "free"
    /\ IF poisoned
       THEN h_pc' = "panicked" /\ rpc_lock' = "free" /\ UNCHANGED poverty_lock
       ELSE h_pc' = "mp_body" /\ poverty_lock' = "health" /\ UNCHANGED rpc_lock
    /\ UNCHANGED <<pools, poisoned, pass, ttl, poller, agreed_head, last, dropper>>

\* make_poverty: the loop over heads, the retain, the guards dropped, Ok(highest_head);
\* check then polls the poverty list. A panic in the loop drops both guards poisoned.
make_poverty ==
    /\ h_pc = "mp_body"
    /\ LET highest_head == HighestHead(heads)
           r == MarkLoop(heads, highest_head, rpc_list, poverty_list)
       IN  /\ poverty_list' = r.pov
           /\ IF r.panicked
              THEN /\ rpc_list' = r.rpc
                   /\ poisoned' = TRUE
                   /\ h_pc' = "panicked"
                   /\ agreed_head' = 0
                   /\ UNCHANGED pass
              ELSE /\ rpc_list' = SelectSeq(r.rpc, NotErroring)
                   /\ agreed_head' = highest_head
                   /\ h_pc' = "hc_len"
                   /\ pass' = "poverty"
                   /\ UNCHANGED poisoned
           /\ last' = [op |-> "make_poverty", rpc |-> rpc_list,
                       pov |-> poverty_list, heads |-> heads,
                       polled |-> rpc_futures, panicked |-> r.panicked,
                       fetched |-> fetched, agreed |-> highest_head]
    /\ rpc_lock' = "free"
    /\ poverty_lock' = "free"
    /\ len' = 0
    /\ rpc_futures' = <<>>
    /\ heads' = <<>>
    /\ fetched' = NoFetch
    /\ UNCHANGED <<running, chan, ttl, dropper>>

\* escape_poverty: poverty_list.write().unwrap()
escape_poverty_lock_pov ==
    /\ h_pc = "ep_lock_pov"
    /\ poverty_lock = "free"
    /\ IF poisoned
       THEN h_pc' = "panicked" /\ UNCHANGED poverty_lock
       ELSE h_pc' = "ep_lock_rpc" /\ poverty_lock' = "health"
    /\ UNCHANGED <<pools, rpc_lock, poisoned, pass, ttl, poller, agreed_head, last,
                   dropper>>

\* escape_poverty: rpc_list.write().unwrap()
escape_poverty_lock_rpc ==
    /\ h_pc = "ep_lock_rpc"
    /\ rpc_lock = "free"
    /\ IF poisoned
       THEN h_pc' = "panicked" /\ poverty_lock' = "free" /\ UNCHANGED rpc_lock
       ELSE h_pc' = "ep_body" /\ rpc_lock' = "health" /\ UNCHANGED poverty_lock
    /\ UNCHANGED <<pools, poisoned, pass, ttl, poller, agreed_head, last, dropper>>

\* escape_poverty: the loop over poverty_heads, the retain, the guards dropped;
\* check returns Ok(()) and health_check calls get_safe_block.
escape_poverty ==
    /\ h_pc = "ep_body"
    /\ LET r == PromoteLoop(heads, agreed_head, rpc_list, poverty_list)
       IN  /\ rpc_list' = r.rpc
           /\ IF r.panicked
              THEN /\ poverty_list' = r.pov
                   /\ poisoned' = TRUE
                   /\ h_pc' = "panicked"
              ELSE /\ poverty_list' = SelectSeq(r.pov, Erroring)
                   /\ h_pc' = "safe_block"
                   /\ UNCHANGED poisoned
           /\ last' = [op |-> "escape_poverty", rpc |-> rpc_list,
                       pov |-> poverty_list, heads |-> heads,
                       polled |-> rpc_futures, panicked |-> r.panicked,
                       fetched |-> fetched, agreed |-> agreed_head]
    /\ rpc_lock' = "free"
    /\ poverty_lock' = "free"
    /\ len' = 0
    /\ rpc_futures' = <<>>
    /\ heads' = <<>>
    /\ agreed_head' = 0
    /\ pass' = "active"
    /\ fetched' = NoFetch
    /\ UNCHANGED <<running, chan, ttl, dropper>>

\* health_check: get_safe_block(...).await?; Ok loops, Err leaves the loop.
safe_block ==
    /\ h_pc = "safe_block"
    /\ \E ok \in BOOLEAN : h_pc' = IF ok THEN "sleep" ELSE "exited"
    /\ last' = NoOp
    /\ UNCHANGED <<pools, locks, pass, ttl, poller, agreed_head, dropper>>

----------------------------------------------------------------------------
(* The Drop Handler. *)

\* dropped_listener: ws_err_rx.recv().await gives Some(WsChannelErr::Closed(index)).
dropped_listener_recv ==
    /\ d_pc = "recv"
    /\ drops < MaxDrops
    /\ drops' = drops + 1
    /\ \E index \in 0..NumNodes :
        /\ ws_conn_index' = index
        /\ closed_node' = IF index < Len(rpc_list)
                          THEN rpc_list[index + 1].url ELSE 0
        /\ d_pc' = "dp_lock_rpc"
        /\ d_log' = <<>>
    /\ UNCHANGED <<pools, locks, h_pc, pass, ttl, poller, agreed_head, last>>

\* dropped_listener: ws_err_rx.recv().await gives None: return Err(InvalidResponse).
dropped_listener_closed ==
    /\ d_pc = "recv"
    /\ d_pc' = "returned"
    /\ d_log' = <<>>
    /\ UNCHANGED <<pools, locks, h_pc, pass, ttl, poller, agreed_head, last,
                   ws_conn_index, closed_node, drops>>

\* send_dropped_to_poverty: rpc_list.write().unwrap()
send_dropped_lock_rpc ==
    /\ d_pc = "dp_lock_rpc"
    /\ rpc_lock = "free"
    /\ IF poisoned
       THEN d_pc' = "panicked" /\ UNCHANGED rpc_lock
       ELSE d_pc' = "dp_lock_pov" /\ rpc_lock' = "drop"
    /\ UNCHANGED <<pools, poverty_lock, poisoned, h_pc, pass, ttl, poller,
                   agreed_head, last, ws_conn_index, closed_node, d_log, drops>>

\* send_dropped_to_poverty: poverty_list.write().unwrap()
send_dropped_lock_pov ==
    /\ d_pc = "dp_lock_pov"
    /\ poverty_lock = "free"
    /\ IF poisoned
       THEN d_pc' = "panicked" /\ rpc_lock' = "free" /\ UNCHANGED poverty_lock
       ELSE d_pc' = "dp_get" /\ poverty_lock' = "drop" /\ UNCHANGED rpc_lock
    /\ UNCHANGED <<pools, poisoned, h_pc, pass, ttl, poller, agreed_head, last,
                   ws_conn_index, closed_node, d_log, drops>>

\* Mutant of send_dropped_get: an index that is not in rpc_list ends the
\* handling of the notification (no migration, no reconnect).
send_dropped_get_returns_early ==
    /\ d_pc = "dp_get"
    /\ IF ws_conn_index < Len(rpc_list)
       THEN /\ poverty_list' = Append(poverty_list, rpc_list[ws_conn_index + 1])
            /\ d_pc' = "dp_remove"
            /\ d_log' = Append(d_log, "push")
            /\ UNCHANGED <<rpc_lock, poverty_lock, closed_node>>
       ELSE /\ d_pc' = "loop"
            /\ d_log' = Append(d_log, "absent")
            /\ rpc_lock' = "free"
            /\ poverty_lock' = "free"
            /\ closed_node' = 0
            /\ UNCHANGED poverty_list
    /\ UNCHANGED <<rpc_list, poisoned, h_pc, pass, ttl, poller, agreed_head, last,
                   ws_conn_index, drops>>

\* send_dropped_to_poverty: if let Some(rpc) = rpc_list_guard.get(ws_conn_index)
\* { poverty_list_guard.push(rpc.clone()); ... }; on None the block ends and the
\* guards are dropped.
send_dropped_get ==
    /\ d_pc = "dp_get"
    /\ IF ws_conn_index < Len(rpc_list)
       THEN /\ poverty_list' = Append(poverty_list, rpc_list[ws_conn_index + 1])
            /\ d_pc' = "dp_remove"
            /\ d_log' = Append(d_log, "push")
            /\ UNCHANGED <<rpc_lock, poverty_lock, closed_node>>
       ELSE /\ d_pc' = "move_subs"
            /\ d_log' = Append(d_log, "absent")
            /\ rpc_lock' = "free"
            /\ poverty_lock' = "free"
            /\ closed_node' = 0
            /\ UNCHANGED poverty_list
    /\ UNCHANGED <<rpc_list, poisoned, h_pc, pass, ttl, poller, agreed_head, last,
                   ws_conn_index, drops>>

\* Mutant of send_dropped_remove: the guards are not scoped to a block and
\* live on into move_subscriptions(...).await.
send_dropped_remove_keeps_guards ==
    /\ d_pc = "dp_remove"
    /\ rpc_list' = RemoveAt(rpc_list, ws_conn_index)
    /\ d_pc' = "move_subs"
    /\ d_log' = Append(d_log, "remove")
    /\ closed_node' = 0
    /\ UNCHANGED <<poverty_list, locks, h_pc, pass, ttl, poller, agreed_head,
                   last, ws_conn_index, drops>>

\* send_dropped_to_poverty: rpc_list_guard.remove(ws_conn_index); the block ends
\* and the guards are dropped.
send_dropped_remove ==
    /\ d_pc = "dp_remove"
    /\ rpc_list' = RemoveAt(rpc_list, ws_conn_index)
    /\ d_pc' = "move_subs"
    /\ d_log' = Append(d_log, "remove")
    /\ rpc_lock' = "free"
    /\ poverty_lock' = "free"
    /\ closed_node' = 0
    /\ UNCHANGED <<poverty_list, poisoned, h_pc, pass, ttl, poller, agreed_head,
                   last, ws_conn_index, drops>>

\* Mutant of move_subscriptions: dropped_listener propagates the error of
\* send_dropped_to_poverty with `?` and returns.
move_subscriptions_err_returns ==
    /\ d_pc = "move_subs"
    /\ \E ok \in BOOLEAN :
        /\ d_log' = Append(d_log, IF ok THEN "migrate_ok" ELSE "migrate_err")
        /\ d_pc' = IF ok THEN "reconnect" ELSE "returned"
    /\ UNCHANGED <<pools, locks, h_pc, pass, ttl, poller, agreed_head, last,
                   ws_conn_index, closed_node, drops>>

\* send_dropped_to_poverty: move_subscriptions(...).await?; dropped_listener
\* swallows its result with unwrap_or(()).
move_subscriptions ==
    /\ d_pc = "move_subs"
    /\ \E ok \in BOOLEAN :
        d_log' = Append(d_log, IF ok THEN "migrate_ok" ELSE "migrate_err")
    /\ d_pc' = "reconnect"
    /\ UNCHANGED <<pools, locks, h_pc, pass, ttl, poller, agreed_head, last,
                   ws_conn_index, closed_node, drops>>

\* dropped_listener: incoming_tx.send(WsconnMessage::Reconnect()).unwrap_or(()).
send_reconnect ==
    /\ d_pc = "reconnect"
    /\ \E ok \in BOOLEAN :
        d_log' = Append(d_log, IF ok THEN "reconnect_ok" ELSE "reconnect_err")
    /\ d_pc' = "loop"
    /\ ws_conn_index' = 0
    /\ UNCHANGED <<pools, locks, h_pc, pass, ttl, poller, agreed_head, last, drops,
                   closed_node>>

\* dropped_listener: the match arm ends and `loop` awaits ws_err_rx.recv() again.
dropped_listener_loop ==
    /\ d_pc = "loop"
    /\ d_pc' = "recv"
    /\ d_log' = <<>>
    /\ UNCHANGED <<pools, locks, h_pc, pass, ttl, poller, agreed_head, last,
                   ws_conn_index, closed_node, drops>>

----------------------------------------------------------------------------

Next ==
    \/ health_sleep
    \/ head_check_len
    \/ head_check_clone
    \/ head_check_spawn
    \/ rpc_future
    \/ head_check_recv
    \/ make_poverty_lock_rpc
    \/ make_poverty_lock_pov
    \/ make_poverty
    \/ escape_poverty_lock_pov
    \/ escape_poverty_lock_rpc
    \/ escape_poverty
    \/ safe_block
    \/ dropped_listener_recv
    \/ dropped_listener_closed
    \/ send_dropped_lock_rpc
    \/ send_dropped_lock_pov
    \/ send_dropped_get
    \/ send_dropped_remove
    \/ move_subscriptions
    \/ send_reconnect
    \/ dropped_listener_loop

Spec == Init /\ [][Next]_vars

\* The steps of the Health Loop task, those of the tasks head_check spawns
\* (rpc_future) apart.
HealthLoop ==
    \/ health_sleep
    \/ head_check_len
    \/ head_check_clone
    \/ head_check_spawn
    \/ head_check_recv
    \/ make_poverty_lock_rpc
    \/ make_poverty_lock_pov
    \/ make_poverty
    \/ escape_poverty_lock_pov
    \/ escape_poverty_lock_rpc
    \/ escape_poverty
    \/ safe_block

\* The steps of the Drop Handler task between two notifications (when a
\* notification arrives is up to the connections, not to the scheduler).
DropHandler ==
    \/ send_dropped_lock_rpc
    \/ send_dropped_lock_pov
    \/ send_dropped_get
    \/ send_dropped_remove
    \/ move_subscriptions
    \/ send_reconnect
    \/ dropped_listener_loop

\* The Health Loop and the tasks it spawns, with no notification arriving:
\* the pools change only by the Health Loop's own arbiters.
HealthNext ==
    \/ HealthLoop
    \/ rpc_future

\* The Health Loop alone, kept running by the tokio runtime; block_number()
\* under timeout() always comes back.
PollerSpec ==
    /\ Init
    /\ [][HealthNext]_vars
    /\ WF_vars(HealthLoop)
    /\ WF_vars(rpc_future)

\* The pools once dropped_listener has handled one notification, for a node
\* of the startup pool, before the first health cycle: the node is at the end
\* of the poverty pool as send_dropped_to_poverty cloned it.
InitQuarantined ==
    /\ \E index \in 0..(NumNodes - 1) :
        LET startup == [k \in 1..NumNodes |-> Rpc(k, FALSE)]
        IN  /\ rpc_list = RemoveAt(startup, index)
            /\ poverty_list = <<startup[index + 1]>>
    /\ rpc_lock = "free"
    /\ poverty_lock = "free"
    /\ poisoned = FALSE
    /\ h_pc = "sleep"
    /\ pass = "active"
    /\ len = 0
    /\ rpc_futures = <<>>
    /\ running = {}
    /\ chan = <<>>
    /\ heads = <<>>
    /\ agreed_head = 0
    /\ d_pc = "recv"
    /\ ws_conn_index = 0
    /\ fetched = NoFetch
    /\ last = NoOp
    /\ d_log = <<>>
    /\ drops = 1
    /\ closed_node = 0
    /\ ttl \in TtlClasses

\* The Health Loop, kept running by the tokio runtime, after one quarantine.
QuarantinedSpec ==
    /\ InitQuarantined
    /\ [][HealthNext]_vars
    /\ WF_vars(HealthLoop)
    /\ WF_vars(rpc_future)

----------------------------------------------------------------------------
(* Vocabulary of the properties. *)

Range(s) == {s[k] : k \in 1..Len(s)}

\* The greatest element of a set of heads, 0 for the empty set.
MaxOf(S) == IF S = {} THEN 0 ELSE CHOOSE m \in S : \A x \in S : x <= m

\* How often the node with url u occurs in a pool.
Count(s, u) == Cardinality({k \in 1..Len(s) : s[k].url = u})

\* The elements of s at the positions in K, in the order of s.
RECURSIVE KeepAt(_, _, _)
KeepAt(s, K, k) ==
    IF k > Len(s) THEN <<>>
    ELSE (IF k \in K THEN <<s[k]>> ELSE <<>>) \o KeepAt(s, K, k + 1)

\* The head the result for slot i reports.
ReportedAt(hs, i) ==
    (CHOOSE r \in Range(hs) : r.rpc_list_index = i).reported_head

\* One result per slot of the pool, each index once.
OneResultPerSlot(hs, pool) ==
    /\ Len(hs) = Len(pool)
    /\ {r.rpc_list_index : r \in Range(hs)} = 0..(Len(pool) - 1)

\* The results in heads are index-correlated with the active pool: the pool
\* is what head_check cloned, slot by slot.
ActiveCorrelated ==
    /\ rpc_futures = rpc_list
    /\ OneResultPerSlot(heads, rpc_list)

\* The make_poverty step is taken (h_pc changes only by a Health Loop step).
MakePovertyRuns == h_pc = "mp_body" /\ h_pc' # "mp_body"

\* C1: make_poverty on results index-correlated with the active pool leaves in
\* the active pool exactly the nodes that reported the agreed head, in their
\* order; appends every node that reported less to the poverty pool exactly
\* once; and keeps the combined size of the two pools.
C1_Partition ==
    [][(MakePovertyRuns /\ ActiveCorrelated) =>
        LET agreed == MaxOf({r.reported_head : r \in Range(heads)})
            keep == {k \in 1..Len(rpc_list) : ReportedAt(heads, k - 1) = agreed}
            behind == {k \in 1..Len(rpc_list) : ReportedAt(heads, k - 1) < agreed}
        IN  /\ h_pc' = "hc_len"
            /\ rpc_list' = KeepAt(rpc_list, keep, 1)
            /\ SubSeq(poverty_list', 1, Len(poverty_list)) = poverty_list
            /\ \A u \in Urls :
                Count(poverty_list', u) = Count(poverty_list, u)
                    + Cardinality({k \in behind : rpc_list[k].url = u})
            /\ \A k \in behind : Count(poverty_list', rpc_list[k].url)
                                    = Count(poverty_list, rpc_list[k].url) + 1
            /\ Len(rpc_list') + Len(poverty_list')
                = Len(rpc_list) + Len(poverty_list)]_vars

\* Scenario A has happened: three nodes polled, three different heads, the
\* pool untouched since the poll; one node stays, two are in the poverty pool.
C1_Witness ==
    /\ last.op = "make_poverty"
    /\ ~last.panicked
    /\ last.polled = last.rpc
    /\ OneResultPerSlot(last.heads, last.rpc)
    /\ Len(last.rpc) = 3
    /\ {r.reported_head : r \in Range(last.heads)} = {0, 1, 2}
    /\ h_pc = "hc_len"
    /\ Len(rpc_list) = 1
    /\ Len(poverty_list) = 2

\* C2: the agreed head make_poverty returns is the greatest reported head of
\* the results it was given, and 0 for no results, whatever their order.
C2_AgreedHeadIsMax ==
    (last.op = "make_poverty" /\ ~last.panicked) =>
        /\ agreed_head = MaxOf({r.reported_head : r \in Range(last.heads)})
        /\ (last.heads = <<>> => agreed_head = 0)

\* make_poverty has returned the head of a result that arrived neither first
\* nor last, with the results out of index order.
C2_Witness ==
    /\ last.op = "make_poverty"
    /\ ~last.panicked
    /\ Len(last.heads) = 3
    /\ last.heads[1].rpc_list_index = 2
    /\ last.heads[2].reported_head = 2
    /\ last.heads[1].reported_head = 1
    /\ last.heads[3].reported_head = 0
    /\ agreed_head = 2

\* make_poverty has returned 0 for an empty result set.
C2_WitnessEmpty ==
    /\ last.op = "make_poverty"
    /\ last.heads = <<>>
    /\ agreed_head = 0

\* The node head_check polled at slot i of the active pool.
PolledUrl(i) == rpc_futures[i + 1].url

\* C3: make_poverty never demotes a node whose reported head equals the agreed
\* head; a polled pool of size 0 or 1 yields no demotion; a non-empty polled
\* active pool is non-empty after the pass.
C3_TieBreak ==
    [][(MakePovertyRuns /\ h_pc' = "hc_len") =>
        /\ \A r \in Range(heads) :
            r.reported_head = agreed_head' =>
                /\ Count(poverty_list', PolledUrl(r.rpc_list_index))
                    = Count(poverty_list, PolledUrl(r.rpc_list_index))
                /\ Count(rpc_list', PolledUrl(r.rpc_list_index))
                    = Count(rpc_list, PolledUrl(r.rpc_list_index))
        /\ (Len(rpc_futures) <= 1 => UNCHANGED pools)
        /\ (Len(rpc_futures) >= 1 => Len(rpc_list') >= 1)]_vars

\* No task holds a pool write lock.
NoWriter == rpc_lock = "free" /\ poverty_lock = "free"

\* The results in heads are index-correlated with the poverty pool: its first
\* slots are what head_check cloned (the Drop Handler may have pushed more).
PovertyCorrelated ==
    /\ OneResultPerSlot(heads, rpc_futures)
    /\ Len(rpc_futures) <= Len(poverty_list)
    /\ rpc_futures = SubSeq(poverty_list, 1, Len(rpc_futures))

\* The escape_poverty step is taken.
EscapePovertyRuns == h_pc = "ep_body" /\ h_pc' # "ep_body"

\* C4: escape_poverty with threshold T on results index-correlated with the
\* poverty pool appends every node that reported >= T to the end of the active
\* pool exactly once with is_erroring cleared, leaves the nodes of the active
\* pool in place, and leaves in the poverty pool only nodes that reported < T.
C4_Recovery ==
    [][(EscapePovertyRuns /\ PovertyCorrelated) =>
        LET made == {k \in 1..Len(rpc_futures) :
                        ReportedAt(heads, k - 1) >= agreed_head}
            stay == (1..Len(rpc_futures)) \ made
            tail == SubSeq(rpc_list', Len(rpc_list) + 1, Len(rpc_list'))
        IN  /\ h_pc' = "safe_block"
            /\ SubSeq(rpc_list', 1, Len(rpc_list)) = rpc_list
            /\ Len(tail) = Cardinality(made)
            /\ \A k \in made :
                /\ Count(tail, poverty_list[k].url) = 1
                /\ \E j \in 1..Len(tail) :
                    tail[j] = Rpc(poverty_list[k].url, FALSE)
                /\ Count(poverty_list', poverty_list[k].url) = 0
            /\ \A j \in 1..Len(poverty_list') :
                \E k \in stay : poverty_list'[j].url = poverty_list[k].url]_vars

\* Scenario B has happened: of two polled poverty nodes the one that reported
\* the agreed head 2 is at the end of the active pool, the one that reported 1
\* is still in the poverty pool.
C4_Witness ==
    /\ last.op = "escape_poverty"
    /\ ~last.panicked
    /\ last.agreed = 2
    /\ last.polled = last.pov
    /\ Len(last.pov) = 2
    /\ {r.reported_head : r \in Range(last.heads)} = {1, 2}
    /\ h_pc = "safe_block"
    /\ Len(rpc_list) = Len(last.rpc) + 1
    /\ ~rpc_list[Len(rpc_list)].is_erroring
    /\ Len(poverty_list) = 1

\* C5: in every state in which no task holds a pool write lock, no node is in
\* both pools and no node occurs twice in a pool.
C5_Disjoint ==
    NoWriter =>
        \A u \in Urls : Count(rpc_list, u) + Count(poverty_list, u) <= 1

\* C6: in every state in which no task holds a pool write lock, and no lock
\* has been poisoned, every node configured at startup is in exactly one of
\* the two pools (escape_poverty and send_dropped_to_poverty lose no node).
C6_Conservation ==
    (NoWriter /\ ~poisoned) =>
        \A u \in Urls : Count(rpc_list, u) + Count(poverty_list, u) = 1

\* head_check has returned Ok(heads) and the arbiter has not yet taken them.
HeadCheckReturned == h_pc \in {"mp_lock_rpc", "ep_lock_pov"}

\* The results sent so far, oldest first.
Sent == heads \o chan

\* C7: head_check on a pool of length n returns n results whose indices are
\* 0..n-1, each once, in any order; a result carries the head its node
\* returned, and 0 when the fetch failed or timed out; an empty pool gives an
\* empty result set; head_check never returns an error.
C7_ResultSet ==
    /\ [](HeadCheckReturned =>
            /\ Len(heads) = len
            /\ Len(rpc_futures) = len
            /\ \A i \in 0..(len - 1) :
                Cardinality({k \in 1..Len(heads) :
                                heads[k].rpc_list_index = i}) = 1
            /\ chan = <<>> /\ running = {})
    /\ [](fetched.outcome.kind # "none" =>
            /\ Sent # <<>>
            /\ Sent[Len(Sent)].rpc_list_index = fetched.i
            /\ Sent[Len(Sent)].reported_head
                = IF fetched.outcome.kind = "ok" THEN fetched.outcome.head ELSE 0)
    /\ [][(h_pc = "hc_len" /\ h_pc' \notin {"hc_len", "panicked"}) =>
            /\ len' = Len(PoolOf(pass))
            /\ (len' = 0 => h_pc' = ArbiterOf(pass) /\ heads' = <<>>)]_vars
    /\ [][(h_pc # "exited" /\ h_pc' = "exited") => h_pc = "safe_block"]_vars

\* head_check has returned three results out of index order, the newest of
\* them the 0 of a fetch that timed out, next to a head of 2.
C7_Witness ==
    /\ HeadCheckReturned
    /\ len = 3
    /\ heads[1].rpc_list_index = 2
    /\ heads[1].reported_head = 2
    /\ heads[3].rpc_list_index = 0
    /\ heads[3].reported_head = 0
    /\ fetched.outcome.kind = "elapsed"

\* head_check has returned the empty result set for an empty pool.
C7_WitnessEmpty ==
    /\ HeadCheckReturned
    /\ len = 0
    /\ heads = <<>>
    /\ PoolOf(pass) = <<>>

\* The newest result comes from a fetch that failed or timed out.
NewestFetchFailed == fetched.outcome.kind \in {"err", "elapsed"}

\* C8 as claimed: a node whose fetch failed or timed out is recorded with head
\* 0 and is demoted by the make_poverty of that cycle.
C8_FailedAlwaysDemoted ==
    [][(MakePovertyRuns /\ NewestFetchFailed) =>
        /\ heads[Len(heads)].reported_head = 0
        /\ h_pc' = "hc_len"
        /\ Count(rpc_list', PolledUrl(fetched.i)) = 0
        /\ Count(poverty_list', PolledUrl(fetched.i)) >= 1]_vars

\* C8, with 'always' read as the tie-break allows (a head of 0 is below the
\* agreed head only when the agreed head is above 0): a node whose fetch
\* failed or timed out is recorded with head 0, and the make_poverty of that
\* cycle returns and demotes that node if the agreed head is greater than 0,
\* and changes no pool if it is 0.
C8_FailedDemotedIffPositive ==
    /\ [](NewestFetchFailed => Sent[Len(Sent)].reported_head = 0)
    /\ [][(MakePovertyRuns /\ NewestFetchFailed) =>
            IF HighestHead(heads) > 0
            THEN /\ h_pc' = "hc_len"
                 /\ Count(rpc_list', PolledUrl(fetched.i)) = 0
                 /\ Count(poverty_list', PolledUrl(fetched.i)) >= 1
            ELSE UNCHANGED pools]_vars

\* A node whose fetch timed out has been demoted next to a node that reported
\* a positive head.
C8_Witness ==
    /\ last.op = "make_poverty"
    /\ ~last.panicked
    /\ last.fetched.outcome.kind = "elapsed"
    /\ last.polled = last.rpc
    /\ last.agreed > 0
    /\ h_pc = "hc_len"
    /\ Count(rpc_list, last.polled[last.fetched.i + 1].url) = 0
    /\ Count(poverty_list, last.polled[last.fetched.i + 1].url) = 1

\* Every fetch of the cycle came back 0 and nothing was demoted, although the
\* newest fetch failed.
C8_WitnessAllZero ==
    /\ last.op = "make_poverty"
    /\ last.fetched.outcome.kind = "err"
    /\ last.agreed = 0
    /\ Len(last.heads) = 3
    /\ rpc_list = last.rpc
    /\ poverty_list = last.pov

\* A step of the Drop Handler (d_pc changes only by one).
DropHandlerSteps == d_pc' # d_pc

\* C9: send_dropped_to_poverty with an index inside the active pool appends
\* the node at that index to the poverty pool and removes it from the active
\* pool, holding both write locks from before the push until after the
\* remove; every other node keeps its pool and its place.
C9_Quarantine ==
    /\ [](d_pc \in {"dp_get", "dp_remove"} =>
            rpc_lock = "drop" /\ poverty_lock = "drop")
    /\ [][(d_pc = "dp_get" /\ DropHandlerSteps
                /\ ws_conn_index < Len(rpc_list)) =>
            /\ d_pc' = "dp_remove"
            /\ poverty_list'
                = Append(poverty_list, rpc_list[ws_conn_index + 1])
            /\ rpc_list' = rpc_list
            /\ rpc_lock' = "drop" /\ poverty_lock' = "drop"]_vars
    /\ [][(d_pc = "dp_remove" /\ DropHandlerSteps) =>
            /\ poverty_list' = poverty_list
            /\ poverty_list[Len(poverty_list)] = rpc_list[ws_conn_index + 1]
            /\ Len(rpc_list') = Len(rpc_list) - 1
            /\ \A k \in 1..Len(rpc_list') :
                rpc_list'[k] = IF k <= ws_conn_index
                               THEN rpc_list[k] ELSE rpc_list[k + 1]
            /\ rpc_lock' = "free" /\ poverty_lock' = "free"]_vars
    /\ [][(d_pc \in {"dp_get", "dp_remove"} /\ ~DropHandlerSteps) =>
            UNCHANGED pools]_vars

\* The node at index 1 of three has been quarantined: the other two are left
\* in the active pool in their order, the node is in the poverty pool alone.
C9_Witness ==
    /\ d_pc = "move_subs"
    /\ d_log = <<"push", "remove">>
    /\ ws_conn_index = 1
    /\ rpc_list = <<Rpc(1, FALSE), Rpc(3, FALSE)>>
    /\ poverty_list = <<Rpc(2, FALSE)>>
    /\ rpc_lock = "free"
    /\ poverty_lock = "free"

\* The notification being handled named an index that was not in rpc_list.
IndexAbsent == d_log # <<>> /\ d_log[1] = "absent"

\* C10: a notification whose index is not in the active pool changes neither
\* pool, and move_subscriptions and the reconnect request are still attempted
\* for it.
C10_AbsentIndex ==
    /\ [][(d_pc = "dp_get" /\ DropHandlerSteps
                /\ ws_conn_index >= Len(rpc_list)) =>
            /\ UNCHANGED pools
            /\ d_pc' = "move_subs"
            /\ d_log' = <<"absent">>]_vars
    /\ [][(IndexAbsent /\ DropHandlerSteps) => UNCHANGED pools]_vars
    /\ [](IndexAbsent =>
            /\ d_pc \in {"move_subs", "reconnect", "loop"}
            /\ d_pc = "reconnect" =>
                Len(d_log) = 2 /\ d_log[2] \in {"migrate_ok", "migrate_err"}
            /\ d_pc = "loop" =>
                /\ Len(d_log) = 3
                /\ d_log[2] \in {"migrate_ok", "migrate_err"}
                /\ d_log[3] \in {"reconnect_ok", "reconnect_err"})
    /\ [][(d_pc = "dp_get" /\ DropHandlerSteps) =>
            (d_log' = <<"absent">> <=> ws_conn_index >= Len(rpc_list))]_vars

\* A notification for index 2 of a two-node active pool has been handled:
\* migration and reconnect were attempted.
C10_Witness ==
    /\ d_pc = "loop"
    /\ IndexAbsent
    /\ Len(d_log) = 3
    /\ Len(rpc_list) = 2
    /\ Len(poverty_list) = 1

\* What the Drop Handler logs for the quarantine step, the migration and the
\* reconnect request of one notification.
QuarantineLogs == {<<"push", "remove">>, <<"absent">>}
MigrationLogs == {<<"migrate_ok">>, <<"migrate_err">>}
ReconnectLogs == {<<"reconnect_ok">>, <<"reconnect_err">>}

\* C11: for every notification, the quarantine step is followed by the
\* migration attempt and then by the reconnect request, in that order; a
\* failed migration or a failed reconnect send is swallowed: the reconnect
\* request is still attempted, dropped_listener returns only when its channel
\* is closed, and nothing keeps it from going on to await the next
\* notification.
C11_ListenerOrder ==
    /\ [](d_pc = "move_subs" => d_log \in QuarantineLogs)
    /\ [](d_pc = "reconnect" =>
            \E q \in QuarantineLogs, m \in MigrationLogs : d_log = q \o m)
    /\ [](d_pc = "loop" =>
            \E q \in QuarantineLogs, m \in MigrationLogs, r \in ReconnectLogs :
                d_log = q \o m \o r)
    /\ [][(d_pc = "move_subs" /\ DropHandlerSteps) => d_pc' = "reconnect"]_vars
    /\ [][(d_pc = "reconnect" /\ DropHandlerSteps) => d_pc' = "loop"]_vars
    /\ [][(d_pc = "loop" /\ DropHandlerSteps) => d_pc' = "recv"]_vars
    /\ [][(d_pc # "returned" /\ d_pc' = "returned") => d_pc = "recv"]_vars
    /\ [](d_pc = "move_subs" => ENABLED move_subscriptions)
    /\ [](d_pc = "reconnect" => ENABLED send_reconnect)
    /\ [](d_pc = "loop" => ENABLED dropped_listener_loop)

\* A notification has been handled whose migration failed and whose reconnect
\* request could not be sent; the listener is about to await the next one.
C11_Witness ==
    /\ d_pc = "loop"
    /\ d_log = <<"push", "remove", "migrate_err", "reconnect_err">>

\* The step of the cycle the Health Loop is in: 0 sleep, 1 poll of the active
\* pool, 2 make_poverty, 3 poll of the poverty pool, 4 escape_poverty, 5
\* safe-block refresh; 6 when the task has ended.
HealthStage ==
    IF h_pc = "sleep" THEN 0
    ELSE IF h_pc \in {"hc_len", "hc_clone", "hc_spawn", "hc_recv"}
         THEN (IF pass = "active" THEN 1 ELSE 3)
    ELSE IF h_pc \in {"mp_lock_rpc", "mp_lock_pov", "mp_body"} THEN 2
    ELSE IF h_pc \in {"ep_lock_pov", "ep_lock_rpc", "ep_body"} THEN 4
    ELSE IF h_pc = "safe_block" THEN 5
    ELSE 6

\* C12: the Health Loop is in one step of the cycle at a time and goes from
\* each to the next: sleep, poll of the active pool, make_poverty, poll of
\* the poverty pool, escape_poverty, safe-block refresh, sleep again; the
\* threshold escape_poverty promotes by is the head the make_poverty of the
\* same cycle returned; no task spawned by a poll outlives the poll.
C12_CycleOrder ==
    /\ [][HealthStage # 6 =>
            \/ HealthStage' = HealthStage
            \/ HealthStage' = (HealthStage + 1) % 6
            \/ HealthStage' = 6]_vars
    /\ [][HealthStage = 6 => HealthStage' = 6]_vars
    /\ [][(MakePovertyRuns /\ h_pc' = "hc_len") =>
            agreed_head' = MaxOf({r.reported_head : r \in Range(heads)})]_vars
    /\ [][(HealthStage \in {3, 4} /\ ~EscapePovertyRuns) =>
            agreed_head' = agreed_head]_vars
    /\ [][(EscapePovertyRuns /\ h_pc' = "safe_block") =>
            Len(rpc_list') = Len(rpc_list)
                + Cardinality({k \in 1..Len(heads) :
                                heads[k].reported_head >= agreed_head})]_vars
    /\ [](h_pc # "hc_recv" => running = {} /\ chan = <<>>)
    /\ [](HealthStage \in {2, 4} => Len(heads) = len)

\* A whole cycle in order: make_poverty agreed on head 1 and demoted a node,
\* the poll of the poverty pool saw that node at head 2, escape_poverty
\* promoted it, and the safe-block refresh is next.
C12_Witness ==
    /\ h_pc = "safe_block"
    /\ last.op = "escape_poverty"
    /\ last.agreed = 1
    /\ Len(last.heads) = 1
    /\ last.heads[1].reported_head = 2
    /\ last.pov = <<Rpc(2, TRUE)>>
    /\ rpc_list = <<Rpc(1, FALSE), Rpc(3, FALSE), Rpc(2, FALSE)>>
    /\ poverty_list = <<>>

----------------------------------------------------------------------------
(* make_poverty called twice with the same results, as a caller or a test  *)
(* (test_poverty) can call it: the pool and the results are drawn from     *)
(* every pool of up to NumNodes nodes and every result set with one result *)
(* per slot, in every order.                                               *)

\* The sequences over S that hold every element of S once.
Perms(S) ==
    {p \in [1..Cardinality(S) -> S] : \A x \in S : \E k \in DOMAIN p : p[k] = x}

\* What head_check can return for a pool of n nodes.
ResultSets(n) ==
    {[k \in 1..n |-> HeadResult(p[k], h[k])] :
        p \in Perms(0..(n - 1)), h \in [1..n -> Heads]}

\* The state in which make_poverty runs on a pool just polled.
InitTwice ==
    /\ \E n \in 0..NumNodes :
        /\ rpc_list = [k \in 1..n |-> Rpc(k, FALSE)]
        /\ heads \in ResultSets(n)
        /\ len = n
    /\ rpc_futures = rpc_list
    /\ poverty_list = <<>>
    /\ rpc_lock = "health"
    /\ poverty_lock = "health"
    /\ poisoned = FALSE
    /\ h_pc = "mp_body"
    /\ pass = "active"
    /\ running = {}
    /\ chan = <<>>
    /\ agreed_head = 0
    /\ d_pc = "recv"
    /\ ws_conn_index = 0
    /\ fetched = NoFetch
    /\ last = NoOp
    /\ d_log = <<>>
    /\ drops = 0
    /\ closed_node = 0
    /\ ttl \in TtlClasses

\* make_poverty, called once more with the heads of the call that has just
\* returned: both write locks, the loop over heads, the retain.
make_poverty_again ==
    /\ h_pc = "hc_len"
    /\ last.op = "make_poverty"
    /\ ~last.panicked
    /\ rpc_lock = "free" /\ poverty_lock = "free" /\ ~poisoned
    /\ LET highest_head == HighestHead(last.heads)
           r == MarkLoop(last.heads, highest_head, rpc_list, poverty_list)
       IN  /\ poverty_list' = r.pov
           /\ IF r.panicked
              THEN /\ rpc_list' = r.rpc
                   /\ poisoned' = TRUE
                   /\ h_pc' = "panicked"
                   /\ agreed_head' = 0
              ELSE /\ rpc_list' = SelectSeq(r.rpc, NotErroring)
                   /\ agreed_head' = highest_head
                   /\ UNCHANGED <<poisoned, h_pc>>
           /\ last' = [op |-> "make_poverty_again", rpc |-> rpc_list,
                       pov |-> poverty_list, heads |-> last.heads,
                       polled |-> last.polled, panicked |-> r.panicked,
                       fetched |-> NoFetch, agreed |-> highest_head]
    /\ UNCHANGED <<rpc_lock, poverty_lock, pass, ttl, poller, dropper>>

NextTwice ==
    \/ make_poverty
    \/ make_poverty_again

SpecTwice == InitTwice /\ [][NextTwice]_vars

\* C13: a second make_poverty with the same results and no poll in between
\* changes neither pool and completes without fault.
C13_Idempotent ==
    [][(last.op = "make_poverty" /\ last'.op = "make_poverty_again") =>
        /\ UNCHANGED pools
        /\ ~last'.panicked]_vars

\* C15: a notification for a node that is no longer in the active pool when
\* the notification is processed changes neither pool; the node a
\* notification quarantines is never another node than the one it is for.
C15_QuarantineIdempotent ==
    /\ [][(d_pc = "dp_get" /\ DropHandlerSteps /\ closed_node # 0
                /\ Count(rpc_list, closed_node) = 0) =>
            UNCHANGED pools /\ d_pc' = "move_subs"]_vars
    /\ [][(d_pc = "dp_get" /\ DropHandlerSteps /\ closed_node # 0
                /\ poverty_list' # poverty_list) =>
            poverty_list'[Len(poverty_list')].url = closed_node]_vars

\* The nodes a step removes from the active pool.
RemovedFromActive ==
    {u \in Urls : Count(rpc_list, u) >= 1 /\ Count(rpc_list', u) = 0}

\* What a step appends to the poverty pool.
PovertyAppended ==
    SubSeq(poverty_list', Len(poverty_list) + 1, Len(poverty_list'))

\* C16 as claimed: after make_poverty, every node it removed from the active
\* pool is in the poverty pool with is_erroring cleared.
C16_DemotedFlagCleared ==
    [][(MakePovertyRuns /\ h_pc' = "hc_len") =>
        \A u \in RemovedFromActive :
            Rpc(u, FALSE) \in Range(PovertyAppended)]_vars

\* C16, amended: after make_poverty, every node it removed from the active
\* pool has been appended to the poverty pool with is_erroring set, and
\* nothing else has been appended.
C16_DemotedFlagSet ==
    [][(MakePovertyRuns /\ h_pc' = "hc_len") =>
        /\ \A u \in RemovedFromActive :
            Rpc(u, TRUE) \in Range(PovertyAppended)
        /\ \A k \in 1..Len(PovertyAppended) :
            /\ PovertyAppended[k].is_erroring
            /\ PovertyAppended[k].url \in RemovedFromActive
        /\ SubSeq(poverty_list', 1, Len(poverty_list)) = poverty_list]_vars

\* make_poverty has just demoted two nodes of three: both are in the poverty
\* pool, flagged.
C16_Witness ==
    /\ last.op = "make_poverty"
    /\ ~last.panicked
    /\ h_pc = "hc_len"
    /\ pass = "poverty"
    /\ Len(last.rpc) = 3
    /\ last.pov = <<>>
    /\ Len(rpc_list) = 1
    /\ Len(poverty_list) = 2
    /\ \A k \in 1..2 :
        /\ poverty_list[k].is_erroring
        /\ Count(rpc_list, poverty_list[k].url) = 0

\* C17: in every state in which no task holds a pool write lock, and no lock
\* has been poisoned, every node of the active pool has is_erroring false and
\* every node of the poverty pool has is_erroring true.
C17_FlagAgreement ==
    (NoWriter /\ ~poisoned) =>
        /\ \A k \in 1..Len(rpc_list) : ~rpc_list[k].is_erroring
        /\ \A k \in 1..Len(poverty_list) : poverty_list[k].is_erroring

\* The Health Loop is suspended: in sleep(), in rx.recv().await of head_check
\* while fetches are out, or in get_safe_block(...).await.
HealthLoopAwaits == h_pc \in {"sleep", "hc_recv", "safe_block"}

\* The Drop Handler is suspended: in ws_err_rx.recv().await or in
\* move_subscriptions(...).await.
DropHandlerAwaits == d_pc \in {"recv", "move_subs"}

\* C18: a task that is suspended at an await holds neither pool lock.
C18_NoLockAcrossAwait ==
    /\ HealthLoopAwaits => rpc_lock # "health" /\ poverty_lock # "health"
    /\ DropHandlerAwaits => rpc_lock # "drop" /\ poverty_lock # "drop"

\* The Drop Handler awaits the migration of a node it has just quarantined,
\* while the Health Loop awaits fetches that are still out; both locks are
\* free.
C18_Witness ==
    /\ d_pc = "move_subs"
    /\ d_log = <<"push", "remove">>
    /\ h_pc = "hc_recv"
    /\ running # {}
    /\ rpc_lock = "free"
    /\ poverty_lock = "free"

\* head_check has been called and has not returned.
InHeadCheck == h_pc \in {"hc_len", "hc_clone", "hc_spawn", "hc_recv"}

\* C19: when every fetch completes or times out (ttl fits the u64 of the
\* timeout, so that every spawned task gets to its fetch), every call of
\* head_check on a pool that does not change returns, having received exactly
\* one result from each task it spawned; while it waits, a result is in the
\* channel or a task is still to send one.
C19_PollerTerminates ==
    /\ ((InHeadCheck /\ TtlFitsU64(ttl)) ~> HeadCheckReturned)
    /\ []((h_pc = "hc_recv" /\ TtlFitsU64(ttl)) =>
            /\ Len(heads) < len
            /\ Len(heads) + Len(chan) + Cardinality(running) = len
            /\ (chan # <<>> \/ running # {}))
    /\ [](HeadCheckReturned =>
            /\ running = {} /\ chan = <<>>
            /\ {r.rpc_list_index : r \in Range(heads)} = 0..(len - 1)
            /\ Len(heads) = len)

\* head_check has returned for three nodes none of which answered: three
\* results of head 0, the newest from a fetch that timed out.
C19_Witness ==
    /\ HeadCheckReturned
    /\ TtlFitsU64(ttl)
    /\ len = 3
    /\ \A k \in 1..3 : heads[k].reported_head = 0
    /\ fetched.outcome.kind = "elapsed"
    /\ pass = "active"

\* Each task holds one pool lock and waits for the one the other holds.
LockCycle ==
    /\ h_pc = "ep_lock_rpc" /\ poverty_lock = "health"
    /\ d_pc = "dp_lock_pov" /\ rpc_lock = "drop"

\* A task has started a pool mutation (it is at or past its first write())
\* and has not finished it.
HealthMutates ==
    h_pc \in {"mp_lock_rpc", "mp_lock_pov", "mp_body",
              "ep_lock_pov", "ep_lock_rpc", "ep_body"}
DropMutates == d_pc \in {"dp_lock_rpc", "dp_lock_pov", "dp_get", "dp_remove"}

\* C20: in no reachable state does each task hold one pool lock and wait for
\* the other; while a pool mutation is under way, the task itself or the
\* holder of the lock it waits for can take a step.
C20_DeadlockFree ==
    /\ ~LockCycle
    /\ (HealthMutates \/ DropMutates) => ENABLED (HealthLoop \/ DropHandler)

\* Node u is in the poverty pool, in the active pool.
InPoverty(u) == Count(poverty_list, u) >= 1
InActive(u) == Count(rpc_list, u) >= 1

\* Whenever this step is a fetch of node u coming back, it comes back with the
\* highest head there is (no agreed head is above it).
ReportsTop(u) ==
    Len(chan') > Len(chan) =>
        LET r == chan'[Len(chan')]
        IN  rpc_futures[r.rpc_list_index + 1].url = u =>
                r.reported_head = MaxHead

\* C14: when the health cycles go on for ever and a node, from some point on,
\* answers every poll with a head that is at least the agreed head, the node,
\* once in the poverty pool, is eventually in the active pool.
C14_Readmission ==
    \A u \in Urls :
        ([]<>(h_pc = "sleep") /\ <>[][ReportsTop(u)]_vars)
            => (InPoverty(u) ~> InActive(u))

\* Slot i of a pool exists and holds the node head_check polled at index i.
SlotHoldsPolled(pool, i) ==
    /\ i < Len(pool)
    /\ i < Len(rpc_futures)
    /\ pool[i + 1].url = PolledUrl(i)

\* C21: whatever the Drop Handler does between a poll and the use of its
\* results, every index head_check, make_poverty and escape_poverty use names
\* an existing slot (no task panics on an index), and that slot holds the
\* node that produced the result: the node demoted or promoted is the node
\* that was polled.
C21_IndexCorrelation ==
    /\ [](h_pc # "panicked" /\ d_pc # "panicked" /\ ~poisoned)
    /\ [](h_pc = "hc_clone" => Len(rpc_futures) < Len(PoolOf(pass)))
    /\ [][MakePovertyRuns =>
            \A r \in Range(heads) :
                FallsBehind(r, HighestHead(heads)) =>
                    SlotHoldsPolled(rpc_list, r.rpc_list_index)]_vars
    /\ [][EscapePovertyRuns =>
            \A r \in Range(heads) :
                MadeIt(r, agreed_head) =>
                    SlotHoldsPolled(poverty_list, r.rpc_list_index)]_vars

====
